---- MODULE Spec2Model ----
(***************************************************************************)
(* Model of the string case-conversion library: chain_prompt.js            *)
(* (normalizeString, chain*Case, toKebabCase) and refined_prompt.js        *)
(* (robustCamelCase, toDotCase, camelCase, toSnakeCase, toCamelCase).      *)
(*                                                                         *)
(* A JavaScript string is a sequence of one-character strings.  A          *)
(* JavaScript value is a record [type, str]: type is "string", "number",   *)
(* "undefined", "object" or "null", and str is the text of a string value  *)
(* (<<>> for the others).  The outcome of a call is a record               *)
(* [kind, type, str, words]: kind is "return" or "throw"; a returned       *)
(* string has type "string" and its text in str, a returned array has type *)
(* "array" and its elements in words, a thrown error has type "TypeError"  *)
(* and its message in str.                                                 *)
(***************************************************************************)
EXTENDS Integers, Sequences, FiniteSets, TLC

\* ------------------------------------------------------------------ bounds
MaxLen == 3
MaxCalls == 2

\* -------------------------------------------------------------- characters
LowerLetters == <<"a", "b", "c", "d", "e", "f", "g", "h", "i", "j", "k", "l", "m", "n", "o", "p", "q", "r", "s", "t", "u", "v", "w", "x", "y", "z">>
UpperLetters == <<"A", "B", "C", "D", "E", "F", "G", "H", "I", "J", "K", "L", "M", "N", "O", "P", "Q", "R", "S", "T", "U", "V", "W", "X", "Y", "Z">>
DigitChars == <<"0", "1", "2", "3", "4", "5", "6", "7", "8", "9">>

Range(f) == {f[i] : i \in DOMAIN f}

\* [a-z]
IsLower(c) == c \in Range(LowerLetters)
\* [A-Z]
IsUpper(c) == c \in Range(UpperLetters)
\* [0-9]
IsDigit(c) == c \in Range(DigitChars)
\* \s
IsSpace(c) == c \in {" ", "\t", "\n", "\r", "\f"}
\* [a-zA-Z0-9]
IsAlnum(c) == IsLower(c) \/ IsUpper(c) \/ IsDigit(c)

\* String.prototype.toLowerCase / toUpperCase on one character
lowerChar(c) == IF IsUpper(c) THEN LowerLetters[CHOOSE i \in 1..26 : UpperLetters[i] = c] ELSE c
upperChar(c) == IF IsLower(c) THEN UpperLetters[CHOOSE i \in 1..26 : LowerLetters[i] = c] ELSE c

\* ------------------------------------------------------- string primitives
toLowerCase(s) == [i \in 1..Len(s) |-> lowerChar(s[i])]
toUpperCase(s) == [i \in 1..Len(s) |-> upperChar(s[i])]

RECURSIVE trimStart(_)
trimStart(s) == IF s # <<>> /\ IsSpace(Head(s)) THEN trimStart(Tail(s)) ELSE s

RECURSIVE trimEnd(_)
trimEnd(s) == IF s # <<>> /\ IsSpace(s[Len(s)]) THEN trimEnd(SubSeq(s, 1, Len(s) - 1)) ELSE s

\* String.prototype.trim
trim(s) == trimEnd(trimStart(s))

\* .replace(/[^a-zA-Z0-9\s]/g, ' ')
replaceNonAlnumMissesUnderscore(s) == [i \in 1..Len(s) |-> IF IsAlnum(s[i]) \/ IsSpace(s[i]) \/ s[i] = "_" THEN s[i] ELSE " "]
replaceNonAlnum(s) == [i \in 1..Len(s) |-> IF IsAlnum(s[i]) \/ IsSpace(s[i]) THEN s[i] ELSE " "]

\* .replace(/[^a-zA-Z\s]/g, ' ')
replaceNonAlpha(s) == [i \in 1..Len(s) |-> IF IsLower(s[i]) \/ IsUpper(s[i]) \/ IsSpace(s[i]) THEN s[i] ELSE " "]

\* .replace(/\s+/g, ' ')
RECURSIVE collapseSpaces(_)
collapseSpaces(s) ==
  IF s = <<>> THEN <<>>
  ELSE IF IsSpace(Head(s)) THEN <<" ">> \o collapseSpaces(trimStart(s))
  ELSE <<Head(s)>> \o collapseSpaces(Tail(s))

\* .replace(/([a-z])([A-Z])/g, '$1 $2')
RECURSIVE insertCaseBoundary(_)
insertCaseBoundary(s) ==
  IF Len(s) < 2 THEN s
  ELSE IF IsLower(s[1]) /\ IsUpper(s[2]) THEN <<s[1], " ">> \o insertCaseBoundary(Tail(s))
  ELSE <<s[1]>> \o insertCaseBoundary(Tail(s))

\* .split(' '): the pieces between single spaces; "" splits into [""]
RECURSIVE splitAcc(_, _)
splitAcc(s, cur) ==
  IF s = <<>> THEN <<cur>>
  ELSE IF Head(s) = " " THEN <<cur>> \o splitAcc(Tail(s), <<>>)
  ELSE splitAcc(Tail(s), Append(cur, Head(s)))

split(s) == splitAcc(s, <<>>)

\* .filter(word => word.length > 0)
filterNonEmpty(ws) == SelectSeq(ws, LAMBDA w : Len(w) > 0)

\* .join(sep)
RECURSIVE join(_, _)
join(ws, sep) ==
  IF ws = <<>> THEN <<>>
  ELSE IF Len(ws) = 1 THEN ws[1]
  ELSE ws[1] \o sep \o join(Tail(ws), sep)

\* lower.charAt(0).toUpperCase() + lower.slice(1)
capitalizeFirst(w) == IF w = <<>> THEN <<>> ELSE <<upperChar(w[1])>> \o Tail(w)

\* --------------------------------------------------------- values, errors
StringValue(s) == [type |-> "string", str |-> s]
NonStringValues == {[type |-> t, str |-> <<>>] : t \in {"number", "undefined", "object", "null"}}

Chars(name) ==
  CASE name = "number" -> <<"n", "u", "m", "b", "e", "r">>
    [] name = "undefined" -> <<"u", "n", "d", "e", "f", "i", "n", "e", "d">>
    [] name = "object" -> <<"o", "b", "j", "e", "c", "t">>
    [] name = "null" -> <<"n", "u", "l", "l">>
    [] name = "string" -> <<"s", "t", "r", "i", "n", "g">>

\* typeof str
typeOf(v) == IF v.type = "null" THEN "object" ELSE v.type
\* str === null ? 'null' : typeof str
typeName(v) == IF v.type = "null" THEN "null" ELSE typeOf(v)

TypeErrorPrefix == <<"I", "n", "p", "u", "t", " ", "m", "u", "s", "t", " ", "b", "e", " ", "a", " ", "s", "t", "r", "i", "n", "g", ",", " ", "r", "e", "c", "e", "i", "v", "e", "d", " ">>
ErrorPrefix == <<"E", "r", "r", "o", "r", ":", " ", "I", "n", "p", "u", "t", " ", "m", "u", "s", "t", " ", "b", "e", " ", "a", " ", "s", "t", "r", "i", "n", "g", ",", " ", "b", "u", "t", " ", "r", "e", "c", "e", "i", "v", "e", "d", " ">>

NoOutcome == [kind |-> "none", type |-> "none", str |-> <<>>, words |-> <<>>]
ReturnString(s) == [kind |-> "return", type |-> "string", str |-> s, words |-> <<>>]
ReturnArray(ws) == [kind |-> "return", type |-> "array", str |-> <<>>, words |-> ws]
ThrowTypeError(msg) == [kind |-> "throw", type |-> "TypeError", str |-> msg, words |-> <<>>]

\* throw new TypeError(`Input must be a string, received ${...}`)
throwInvalidInputMissesNull(v) == ThrowTypeError(TypeErrorPrefix \o Chars(typeOf(v)))
throwInvalidInput(v) == ThrowTypeError(TypeErrorPrefix \o Chars(typeName(v)))

\* return `Error: Input must be a string, but received ${typeof str}`
returnErrorString(v) == ReturnString(ErrorPrefix \o Chars(typeOf(v)))

\* ------------------------------------------------- chain_prompt.js functions
\* Steps 1-3 of normalizeString on the text of a string argument
normalizeWords(s) ==
  LET trimmed == trim(s)
  IN IF Len(trimmed) = 0 THEN <<>>
     ELSE filterNonEmpty(split(trim(collapseSpaces(replaceNonAlnum(trimmed)))))

normalizeString(v) ==
  IF typeOf(v) # "string" THEN throwInvalidInput(v)
  ELSE ReturnArray(normalizeWords(v.str))

\* words.map(word => word.toLowerCase())
lowerWords(ws) == [i \in 1..Len(ws) |-> toLowerCase(ws[i])]

\* words.map((word, index) => index === 0 ? lower : capitalized lower)
camelWords(ws) == [i \in 1..Len(ws) |-> IF i = 1 THEN toLowerCase(ws[i]) ELSE capitalizeFirst(toLowerCase(ws[i]))]

\* words.map(word => capitalized lower)
pascalWords(ws) == [i \in 1..Len(ws) |-> capitalizeFirst(toLowerCase(ws[i]))]

chainCamelCase(v) ==
  LET words == normalizeString(v)
  IN IF words.kind = "throw" THEN words
     ELSE IF Len(words.words) = 0 THEN ReturnString(<<>>)
     ELSE ReturnString(join(camelWords(words.words), <<>>))

chainSnakeCaseRendersCamel(v) ==
  LET words == normalizeString(v)
  IN IF words.kind = "throw" THEN words
     ELSE ReturnString(join(camelWords(words.words), <<>>))

chainSnakeCase(v) ==
  LET words == normalizeString(v)
  IN IF words.kind = "throw" THEN words
     ELSE ReturnString(join(lowerWords(words.words), <<"_">>))

chainDotCase(v) ==
  LET words == normalizeString(v)
  IN IF words.kind = "throw" THEN words
     ELSE ReturnString(join(lowerWords(words.words), <<".">>))

chainKebabCase(v) ==
  LET words == normalizeString(v)
  IN IF words.kind = "throw" THEN words
     ELSE ReturnString(join(lowerWords(words.words), <<"-">>))

toKebabCase(v) ==
  IF typeOf(v) # "string" THEN throwInvalidInput(v)
  ELSE LET trimmed == trim(v.str)
       IN IF Len(trimmed) = 0 THEN ReturnString(<<>>)
          ELSE LET words == filterNonEmpty(split(trim(collapseSpaces(
                              insertCaseBoundary(replaceNonAlnum(trimmed))))))
               IN IF Len(words) = 0 THEN ReturnString(<<>>)
                  ELSE ReturnString(join(lowerWords(words), <<"-">>))

chainPascalCaseKeepsCase(v) ==
  LET words == normalizeString(v)
  IN IF words.kind = "throw" THEN words
     ELSE ReturnString(join([i \in 1..Len(words.words) |-> capitalizeFirst(words.words[i])], <<>>))

chainPascalCase(v) ==
  LET words == normalizeString(v)
  IN IF words.kind = "throw" THEN words
     ELSE ReturnString(join(pascalWords(words.words), <<>>))

\* ----------------------------------------------- refined_prompt.js functions
robustCamelCase(v) ==
  IF typeOf(v) # "string" THEN throwInvalidInput(v)
  ELSE LET trimmed == trim(v.str)
       IN IF Len(trimmed) = 0 THEN ReturnString(<<>>)
          ELSE LET words == filterNonEmpty(split(trim(collapseSpaces(replaceNonAlnum(trimmed)))))
               IN IF Len(words) = 0 THEN ReturnString(<<>>)
                  ELSE ReturnString(join(camelWords(words), <<>>))

toDotCase(v) ==
  IF typeOf(v) # "string" THEN throwInvalidInput(v)
  ELSE LET trimmed == trim(v.str)
       IN IF Len(trimmed) = 0 THEN ReturnString(<<>>)
          ELSE ReturnString(join(filterNonEmpty(split(toLowerCase(
                 trim(collapseSpaces(replaceNonAlnum(trimmed)))))), <<".">>))

\* the map callback of camelCase: '' for an empty word, the word itself at
\* index 0, the capitalized word elsewhere
camelCaseWords(ws) ==
  [i \in 1..Len(ws) |-> IF Len(ws[i]) = 0 THEN <<>>
                        ELSE IF i = 1 THEN ws[i]
                        ELSE capitalizeFirst(ws[i])]

camelCase(v) ==
  IF typeOf(v) # "string" THEN returnErrorString(v)
  ELSE LET trimmed == trim(v.str)
       IN IF Len(trimmed) = 0 THEN ReturnString(<<>>)
          ELSE ReturnString(join(filterNonEmpty(camelCaseWords(split(toLowerCase(
                 trim(collapseSpaces(replaceNonAlpha(trimmed))))))), <<>>))

toSnakeCase(v) ==
  IF typeOf(v) # "string" THEN returnErrorString(v)
  ELSE LET trimmed == trim(v.str)
       IN IF Len(trimmed) = 0 THEN ReturnString(<<>>)
          ELSE ReturnString(join(filterNonEmpty(split(toLowerCase(
                 trim(collapseSpaces(replaceNonAlnum(trimmed)))))), <<"_">>))

\* [-_\s]
IsCamelSeparator(c) == c = "-" \/ c = "_" \/ IsSpace(c)

RECURSIVE dropCamelSeparators(_)
dropCamelSeparators(s) ==
  IF s # <<>> /\ IsCamelSeparator(Head(s)) THEN dropCamelSeparators(Tail(s)) ELSE s

\* .replace(/[-_\s]+(.)?/g, (_, c) => c ? c.toUpperCase() : ''): every maximal
\* run of separators is removed and the character after it, if any, uppercased
RECURSIVE replaceSeparatorRuns(_)
replaceSeparatorRuns(s) ==
  IF s = <<>> THEN <<>>
  ELSE IF IsCamelSeparator(Head(s))
       THEN LET rest == dropCamelSeparators(s)
            IN IF rest = <<>> THEN <<>>
               ELSE <<upperChar(Head(rest))>> \o replaceSeparatorRuns(Tail(rest))
  ELSE <<Head(s)>> \o replaceSeparatorRuns(Tail(s))

\* .replace(/^(.)/, (c) => c.toLowerCase())
lowerFirst(s) == IF s = <<>> THEN <<>> ELSE <<lowerChar(Head(s))>> \o Tail(s)

\* str.toLowerCase() on a value that is not a string has no such method (or
\* no properties at all): the engine throws a TypeError, whose message is the
\* engine's and is left empty here
toCamelCase(v) ==
  IF typeOf(v) # "string" THEN ThrowTypeError(<<>>)
  ELSE ReturnString(lowerFirst(replaceSeparatorRuns(toLowerCase(v.str))))

\* ----------------------------------------------------------------- inputs
GenChars == {"a", "b", "B", "1", " ", "_", "-", ".", "!"}
BoundedStrings == UNION {[1..n -> GenChars] : n \in 0..MaxLen}

firstName == <<"f", "i", "r", "s", "t", "N", "a", "m", "e">>
helloWorld == <<"h", "e", "l", "l", "o", "W", "o", "r", "l", "d">>
helloWorldTest == <<"h", "e", "l", "l", "o", "W", "o", "r", "l", "d", "T", "e", "s", "t">>
digitsTestString == <<"1", "2", "3", " ", "t", "e", "s", "t", " ", "s", "t", "r", "i", "n", "g">>

ExampleStrings ==
  { firstName, helloWorld, helloWorldTest, digitsTestString,
    <<"u", "s", "e", "r", "_", "i", "d">>,
    <<"u", "s", "e", "r", "-", "i", "d">>,
    <<"u", "s", "e", "r", ".", "i", "d">>,
    <<"u", "s", "e", "r", " ", "i", "d">>,
    <<"H", "e", "l", "l", "o", "@", "W", "o", "r", "l", "d", "#", "T", "e", "s", "t", "!">>,
    <<" ", " ", "h", "e", "l", "l", "o", " ", " ", " ", "W", "o", "r", "l", "d", "!", " ", " ">>,
    <<"S", "C", "R", "E", "E", "N", "-", "N", "A", "M", "E">>,
    <<"\t", "h", "e", "l", "l", "o", "\n", "w", "o", "r", "l", "d", " ">>,
    <<"!", "!", "!">>,
    <<" ", " ", " ">> }

Inputs == {StringValue(s) : s \in BoundedStrings \cup ExampleStrings} \cup NonStringValues

FunctionNames ==
  { "normalizeString", "chainCamelCase", "chainSnakeCase", "chainDotCase",
    "chainKebabCase", "toKebabCase", "chainPascalCase", "robustCamelCase",
    "toDotCase", "camelCase", "toSnakeCase", "toCamelCase" }

\* ------------------------------------------------------------ state machine
\* input:   the caller's value, chosen once
\* arg:     the argument of the latest call
\* fn:      the function of the latest call ("none" before the first)
\* outcome: what the latest call returned or threw
\* prev:    the outcome of the call before it
\* calls:   the number of calls made
\* history: the calls made so far, as the caller observed them
VARIABLES input, arg, fn, outcome, prev, calls, history

vars == <<input, arg, fn, outcome, prev, calls, history>>

Init ==
  /\ input \in Inputs
  /\ arg = input
  /\ fn = "none"
  /\ outcome = NoOutcome
  /\ prev = NoOutcome
  /\ calls = 0
  /\ history = <<>>

\* The caller passes its value to a function, or passes the string a function
\* returned back to the same function.
CanCall(name) ==
  /\ calls < MaxCalls
  /\ calls = 0 \/ (fn = name /\ outcome.kind = "return" /\ outcome.type = "string")

NextArg == IF calls = 0 THEN input ELSE StringValue(outcome.str)

Observed(name, v, result) == [fn |-> name, arg |-> v, outcome |-> result]

Called(name, result) ==
  /\ arg' = NextArg
  /\ fn' = name
  /\ prev' = outcome
  /\ outcome' = result
  /\ calls' = calls + 1
  /\ history' = Append(history, Observed(name, NextArg, result))
  /\ UNCHANGED input

CallNormalizeString == CanCall("normalizeString") /\ Called("normalizeString", normalizeString(NextArg))
CallChainCamelCase == CanCall("chainCamelCase") /\ Called("chainCamelCase", chainCamelCase(NextArg))
CallChainSnakeCase == CanCall("chainSnakeCase") /\ Called("chainSnakeCase", chainSnakeCase(NextArg))
CallChainDotCase == CanCall("chainDotCase") /\ Called("chainDotCase", chainDotCase(NextArg))
CallChainKebabCase == CanCall("chainKebabCase") /\ Called("chainKebabCase", chainKebabCase(NextArg))
CallToKebabCase == CanCall("toKebabCase") /\ Called("toKebabCase", toKebabCase(NextArg))
CallChainPascalCase == CanCall("chainPascalCase") /\ Called("chainPascalCase", chainPascalCase(NextArg))
CallRobustCamelCase == CanCall("robustCamelCase") /\ Called("robustCamelCase", robustCamelCase(NextArg))
CallToDotCase == CanCall("toDotCase") /\ Called("toDotCase", toDotCase(NextArg))
CallCamelCase == CanCall("camelCase") /\ Called("camelCase", camelCase(NextArg))
CallToSnakeCase == CanCall("toSnakeCase") /\ Called("toSnakeCase", toSnakeCase(NextArg))
CallToCamelCase == CanCall("toCamelCase") /\ Called("toCamelCase", toCamelCase(NextArg))

Next ==
  \/ CallNormalizeString
  \/ CallChainCamelCase
  \/ CallChainSnakeCase
  \/ CallChainDotCase
  \/ CallChainKebabCase
  \/ CallToKebabCase
  \/ CallChainPascalCase
  \/ CallRobustCamelCase
  \/ CallToDotCase
  \/ CallCamelCase
  \/ CallToSnakeCase
  \/ CallToCamelCase

Spec == Init /\ [][Next]_vars

TypeOK ==
  /\ input \in Inputs
  /\ arg.type \in {"string", "number", "undefined", "object", "null"}
  /\ fn \in FunctionNames \cup {"none"}
  /\ outcome.kind \in {"none", "return", "throw"}
  /\ calls = Len(history)

\* ---------------------------------------------------------------- sessions
\* A caller makes up to MaxSessionCalls calls, each to any exported function,
\* passing its own value or the string the previous call returned.
MaxSessionCalls == 3

SessionStrings ==
  { <<>>,
    <<" ", "!">>,
    <<"a", " ", "b">>,
    <<"a", "B">>,
    <<"B", "_", "1">>,
    <<"a", ".", "b">> }

SessionInputs == {StringValue(s) : s \in SessionStrings} \cup NonStringValues

SessionInit ==
  /\ input \in SessionInputs
  /\ arg = input
  /\ fn = "none"
  /\ outcome = NoOutcome
  /\ prev = NoOutcome
  /\ calls = 0
  /\ history = <<>>

SessionArgs ==
  {input} \cup (IF outcome.kind = "return" /\ outcome.type = "string"
                THEN {StringValue(outcome.str)} ELSE {})

\* One call of the exported function `name`, whose body is f: the function
\* sees its parameter only; its locals (str, words) are gone when it returns
\* and the module keeps no variable of its own.
Session(name, f(_)) ==
  /\ calls < MaxSessionCalls
  /\ \E v \in SessionArgs :
       /\ arg' = v
       /\ fn' = name
       /\ prev' = outcome
       /\ outcome' = f(v)
       /\ calls' = calls + 1
       /\ history' = Append(history, Observed(name, v, f(v)))
       /\ UNCHANGED input

\* normalizeString with a words array kept across calls instead of a local
normalizeStringKeepsWords(v) ==
  LET words == normalizeString(v)
  IN IF words.kind = "return" /\ fn = "normalizeString" /\ outcome.kind = "return"
     THEN ReturnArray(outcome.words \o words.words)
     ELSE words

SessionNormalizeStringKeepsWords == Session("normalizeString", normalizeStringKeepsWords)
SessionNormalizeString == Session("normalizeString", normalizeString)
SessionChainCamelCase == Session("chainCamelCase", chainCamelCase)
SessionChainSnakeCase == Session("chainSnakeCase", chainSnakeCase)
SessionChainDotCase == Session("chainDotCase", chainDotCase)
SessionChainKebabCase == Session("chainKebabCase", chainKebabCase)
SessionToKebabCase == Session("toKebabCase", toKebabCase)
SessionChainPascalCase == Session("chainPascalCase", chainPascalCase)
SessionRobustCamelCase == Session("robustCamelCase", robustCamelCase)
SessionToDotCase == Session("toDotCase", toDotCase)
SessionCamelCase == Session("camelCase", camelCase)
SessionToSnakeCase == Session("toSnakeCase", toSnakeCase)
SessionToCamelCase == Session("toCamelCase", toCamelCase)

SessionNext ==
  \/ SessionNormalizeString
  \/ SessionChainCamelCase
  \/ SessionChainSnakeCase
  \/ SessionChainDotCase
  \/ SessionChainKebabCase
  \/ SessionToKebabCase
  \/ SessionChainPascalCase
  \/ SessionRobustCamelCase
  \/ SessionToDotCase
  \/ SessionCamelCase
  \/ SessionToSnakeCase
  \/ SessionToCamelCase

SessionSpec == SessionInit /\ [][SessionNext]_vars

\* -------------------------------------------------------------- properties
RendererNames == FunctionNames \ {"normalizeString"}
CamelNames == {"toCamelCase", "robustCamelCase", "chainCamelCase", "camelCase"}
SeparatedNames == {"toSnakeCase", "chainSnakeCase", "toKebabCase", "chainKebabCase", "toDotCase", "chainDotCase"}
TypeCheckedNames == {"normalizeString", "toKebabCase", "robustCamelCase", "toDotCase"}

IsLowerWord(w) == Len(w) > 0 /\ \A i \in 1..Len(w) : IsLower(w[i])
Flatten(ws) == join(ws, <<>>)
Capitalized(w) == <<upperChar(w[1])>> \o SubSeq(w, 2, Len(w))
Message(name) == TypeErrorPrefix \o name

\* a lowercase word followed by words of one uppercase letter and one or
\* more lowercase letters
IsCamelCased(s) ==
  /\ Len(s) > 0
  /\ IsLower(s[1])
  /\ IsLower(s[Len(s)])
  /\ \A i \in 1..Len(s) : IsLower(s[i]) \/ IsUpper(s[i])
  /\ \A i \in 1..(Len(s) - 1) : ~(IsUpper(s[i]) /\ IsUpper(s[i + 1]))

\* C1: every renderer-facing function called with a non-string argument
\* raises a TypeError and never returns a value.
C1_NonStringRaises ==
  (fn \in RendererNames /\ arg.type # "string")
    => (outcome.kind = "throw" /\ outcome.type = "TypeError")

\* C2: a lowercase letter immediately followed by an uppercase letter is a
\* word boundary: no token of normalizeString holds such a pair,
\* normalizeString("firstName") is ("first", "Name"), the snake converters
\* give "first_name" and "hello_world", the kebab converters "first-name".
C2_CaseBoundary ==
  /\ (fn = "normalizeString" /\ arg.type = "string")
       => \A k \in 1..Len(outcome.words) :
            \A i \in 1..(Len(outcome.words[k]) - 1) :
              ~(IsLower(outcome.words[k][i]) /\ IsUpper(outcome.words[k][i + 1]))
  /\ (fn = "normalizeString" /\ arg = StringValue(firstName))
       => outcome = ReturnArray(<< <<"f", "i", "r", "s", "t">>, <<"N", "a", "m", "e">> >>)
  /\ (fn \in {"toSnakeCase", "chainSnakeCase"} /\ arg = StringValue(firstName))
       => outcome = ReturnString(<<"f", "i", "r", "s", "t", "_", "n", "a", "m", "e">>)
  /\ (fn = "toSnakeCase" /\ arg = StringValue(helloWorld))
       => outcome = ReturnString(<<"h", "e", "l", "l", "o", "_", "w", "o", "r", "l", "d">>)
  /\ (fn \in {"toKebabCase", "chainKebabCase"} /\ arg = StringValue(firstName))
       => outcome = ReturnString(<<"f", "i", "r", "s", "t", "-", "n", "a", "m", "e">>)

\* C3: for lowercase words w1, w2 and a separator among "_", "-", "." and
\* " ", every camelCase converter maps w1 sep w2 to w1 followed by w2 with
\* its first letter uppercased.
C3_SeparatorUniformity ==
  (fn \in CamelNames /\ arg.type = "string")
    => \A i \in 2..(Len(arg.str) - 1) :
         LET w1 == SubSeq(arg.str, 1, i - 1)
             w2 == SubSeq(arg.str, i + 1, Len(arg.str))
         IN (arg.str[i] \in {"_", "-", ".", " "} /\ IsLowerWord(w1) /\ IsLowerWord(w2))
              => outcome = ReturnString(w1 \o Capitalized(w2))

\* C4: every camelCase converter keeps the digits of its input, in order, and
\* "123 test string" gives "123testString".
C4_DigitPreservation ==
  (fn \in CamelNames /\ arg.type = "string")
    => /\ outcome.kind = "return"
       /\ SelectSeq(outcome.str, IsDigit) = SelectSeq(arg.str, IsDigit)
       /\ arg.str = digitsTestString
            => outcome.str = <<"1", "2", "3", "t", "e", "s", "t", "S", "t", "r", "i", "n", "g">>

\* C5: on a non-empty token sequence t1..tn of normalizeString, chainCamelCase
\* returns lower(t1) then capitalize(lower(ti)) for i > 1, chainPascalCase
\* capitalize(lower(ti)) for every i, both joined with ""; chainSnakeCase,
\* chainKebabCase and chainDotCase return lower(ti) joined with "_", "-", ".".
C5_RenderingRules ==
  LET t == normalizeWords(arg.str)
      lower == [i \in 1..Len(t) |-> toLowerCase(t[i])]
      cap == [i \in 1..Len(t) |-> Capitalized(lower[i])]
  IN (arg.type = "string" /\ Len(t) > 0) =>
       /\ fn = "chainCamelCase"
            => outcome = ReturnString(Flatten([i \in 1..Len(t) |-> IF i = 1 THEN lower[i] ELSE cap[i]]))
       /\ fn = "chainPascalCase" => outcome = ReturnString(Flatten(cap))
       /\ fn = "chainSnakeCase" => outcome = ReturnString(join(lower, <<"_">>))
       /\ fn = "chainKebabCase" => outcome = ReturnString(join(lower, <<"-">>))
       /\ fn = "chainDotCase" => outcome = ReturnString(join(lower, <<".">>))

C5_Witness ==
  /\ fn = "chainPascalCase"
  /\ arg = StringValue(<<"B", "B", "_">>)
  /\ outcome = ReturnString(<<"B", "b">>)

\* C6: for a string with no letter and no digit (empty, whitespace,
\* punctuation), normalizeString returns the empty list and every renderer
\* returns the empty string.
C6_EmptyInputs ==
  (arg.type = "string" /\ \A i \in 1..Len(arg.str) : ~IsAlnum(arg.str[i]))
    => /\ fn = "normalizeString" => outcome = ReturnArray(<<>>)
       /\ fn \in RendererNames => outcome = ReturnString(<<>>)

\* C7: normalizeString, toKebabCase, robustCamelCase and toDotCase raise, for
\* a non-string value, an error whose message carries the runtime type name
\* of the value, "null" for null (never "object"), and raise nothing for a
\* string.
C7_ErrorCarriesTypeName ==
  fn \in TypeCheckedNames =>
    /\ arg.type = "string" => outcome.kind = "return"
    /\ arg.type = "number" => outcome = ThrowTypeError(Message(<<"n", "u", "m", "b", "e", "r">>))
    /\ arg.type = "undefined" => outcome = ThrowTypeError(Message(<<"u", "n", "d", "e", "f", "i", "n", "e", "d">>))
    /\ arg.type = "object" => outcome = ThrowTypeError(Message(<<"o", "b", "j", "e", "c", "t">>))
    /\ arg.type = "null" => outcome = ThrowTypeError(Message(<<"n", "u", "l", "l">>))

C7_Witness ==
  /\ fn = "toDotCase"
  /\ arg.type = "null"
  /\ outcome.kind = "throw"

\* C8: for a string input s and f a snake, kebab or dot converter,
\* f(f(s)) = f(s).
C8_SeparatedIdempotent ==
  (fn \in SeparatedNames /\ input.type = "string" /\ calls >= 2)
    => (outcome = prev /\ arg = StringValue(prev.str))

C8_Witness ==
  /\ fn = "toKebabCase"
  /\ calls = 2
  /\ input = StringValue(<<"a", "B", "1">>)
  /\ outcome = ReturnString(<<"a", "-", "b", "1">>)

\* C9: every camelCase converter returns an already camelCased string
\* unchanged, and camelCase rendering is idempotent on every string.
C9_CamelCasedUnchanged ==
  /\ (fn \in CamelNames /\ arg.type = "string" /\ IsCamelCased(arg.str))
       => outcome = ReturnString(arg.str)
  /\ (fn \in CamelNames /\ input.type = "string" /\ calls >= 2)
       => outcome = prev

\* C10: every token returned by normalizeString is non-empty and made of
\* ASCII letters and digits only, and the tokens concatenated in order are
\* the input with every other character removed.
C10_TokenSequence ==
  (fn = "normalizeString" /\ arg.type = "string")
    => /\ outcome.kind = "return"
       /\ outcome.type = "array"
       /\ \A k \in 1..Len(outcome.words) :
            /\ Len(outcome.words[k]) > 0
            /\ \A i \in 1..Len(outcome.words[k]) : IsAlnum(outcome.words[k][i])
       /\ Flatten(outcome.words) = SelectSeq(arg.str, IsAlnum)

C10_Witness ==
  /\ fn = "normalizeString"
  /\ arg = StringValue(<<"a", "_", "B">>)
  /\ outcome = ReturnArray(<< <<"a">>, <<"B">> >>)

\* the calls observed so far agree: same function and same argument, same
\* outcome
SameCallSameOutcome ==
  \A i, j \in 1..Len(history) :
    (history[i].fn = history[j].fn /\ history[i].arg = history[j].arg)
      => history[i].outcome = history[j].outcome

====
